---- MODULE Spec2Model ----
(***************************************************************************)
(* Model of the contact-detector core: surface extraction ("skinning") of  *)
(* a hexahedral mesh (src/src/mesh/surface.rs, types.rs, geometry.rs) and  *)
(* contact pair detection between two surface patches                      *)
(* (src/src/contact/detection.rs, types.rs).                               *)
(*                                                                         *)
(* Conventions.  Rust indices are 0-based; a Vec v is a TLA+ sequence, so  *)
(* v[i] of the code is v[i+1] here, while the VALUES stored (node ids,     *)
(* element indices, face indices) stay 0-based as in the code.             *)
(* Coordinates are integers (f64 in the code).  A unit normal is kept as   *)
(* the primitive integer vector of its direction (extraction) or as an     *)
(* axis unit vector (detection inputs), so every comparison the code       *)
(* makes is decided exactly.                                               *)
(***************************************************************************)
EXTENDS Integers, Sequences, FiniteSets, TLC

VARIABLES
    \* ---- extract_surface ----
    mesh,            \* the input Mesh: [nodes, elements, element_blocks]
    pc,              \* position inside extract_surface
    face_adjacency,  \* HashMap<QuadFace, Vec<usize>> of build_face_adjacency
    boundary_faces,  \* HashMap<QuadFace, usize> of extract_boundary_faces
    block_faces,     \* HashMap<String, Vec<QuadFace>> of group_by_block
    block_queue,     \* blocks still to subdivide, in block_faces' iteration order
    surfaces,        \* Vec<SurfaceMesh> built so far / returned
    outcome,         \* "none" | "Ok" | "InvalidMeshTopology" | "GeometryError"
    prev_surfaces,   \* <<>> or <<s>>: the list an earlier run on this mesh returned
    \* ---- detect_contact_pairs ----
    surface_a,       \* patch A: [face_centroids, face_normals, face_areas]
    surface_b,       \* patch B
    criteria,        \* ContactCriteria
    dpc,             \* position inside detect_contact_pairs
    face_results,    \* Vec<Option<ContactPair>> of the per-A-face map
    nearest_of,      \* per A face: what tree_b.within returned for it
    overtook,        \* TRUE once a search finished before one of a lower A index
    results,         \* ContactResults: [pairs, unpaired_a, unpaired_b]
    metrics,         \* <<>> or <<SurfaceMetrics::compute(&results, &surface_a)>>
    \* ---- QuadFace::canonical ----
    quad_f,          \* a QuadFace (its node_ids)
    quad_g,          \* another QuadFace
    key_f,           \* <<>> or <<quad_f.canonical()>>
    key_g,           \* <<>> or <<quad_g.canonical()>>
    rekey_f,         \* <<>> or <<quad_f.canonical().canonical()>>
    \* ---- ContactCriteria::is_in_range ----
    range_c,         \* a ContactCriteria
    range_d,         \* a signed distance
    range_ok         \* <<>> or <<range_c.is_in_range(range_d)>>

vars == <<mesh, pc, face_adjacency, boundary_faces, block_faces, block_queue,
          surfaces, outcome, prev_surfaces,
          surface_a, surface_b, criteria, dpc, face_results, nearest_of, overtook,
          results, metrics, quad_f, quad_g, key_f, key_g, rekey_f,
          range_c, range_d, range_ok>>

surfaceVars == <<mesh, pc, face_adjacency, boundary_faces, block_faces,
                 block_queue, surfaces, outcome, prev_surfaces>>

contactVars == <<surface_a, surface_b, criteria, dpc, face_results, nearest_of,
                 overtook, results, metrics>>

canonVars == <<quad_f, quad_g, key_f, key_g, rekey_f>>

rangeVars == <<range_c, range_d, range_ok>>

(***************************************************************************)
(* Bounds of the model.                                                    *)
(***************************************************************************)
\* Largest number of lattice cells (hex elements) of a generated mesh.
MaxElems == 3
\* Number of hasher states tried for each HashMap that is iterated.
NumHashSeeds == 2

(***************************************************************************)
(* Small helpers.                                                          *)
(***************************************************************************)
Range(s) == {s[i] : i \in DOMAIN s}

Abs(x) == IF x < 0 THEN -x ELSE x

\* f itself, tabulated once (f @@ <<>> = f): TLC otherwise re-evaluates the
\* body of [x \in S |-> e] at every application.
Tabulated(f) == f @@ <<>>

RECURSIVE GCD(_, _)
GCD(a, b) == IF b = 0 THEN a ELSE GCD(b, a % b)

\* Lexicographic order on integer tuples of the same length (Rust's Ord on
\* arrays, slices and tuples).
RECURSIVE LexLessFrom(_, _, _)
LexLessFrom(a, b, i) ==
    IF i > Len(a) THEN FALSE
    ELSE IF a[i] < b[i] THEN TRUE
    ELSE IF a[i] > b[i] THEN FALSE
    ELSE LexLessFrom(a, b, i + 1)

LexLess(a, b) == LexLessFrom(a, b, 1)

\* floor(sqrt(n)) by bisection on lo..hi.
RECURSIVE ISqrtIn(_, _, _)
ISqrtIn(n, lo, hi) ==
    IF lo >= hi THEN lo
    ELSE LET mid == (lo + hi + 1) \div 2
         IN IF mid * mid <= n THEN ISqrtIn(n, mid, hi) ELSE ISqrtIn(n, lo, mid - 1)

ISqrt(n) == ISqrtIn(n, 0, 46340)

(***************************************************************************)
(* nalgebra vectors and points: triples of integers.                       *)
(***************************************************************************)
VSub(p, q) == <<p[1] - q[1], p[2] - q[2], p[3] - q[3]>>

VAdd(p, q) == <<p[1] + q[1], p[2] + q[2], p[3] + q[3]>>

VScale(k, v) == <<k * v[1], k * v[2], k * v[3]>>

Dot(u, v) == u[1] * v[1] + u[2] * v[2] + u[3] * v[3]

Cross(u, v) == <<u[2] * v[3] - u[3] * v[2],
                 u[3] * v[1] - u[1] * v[3],
                 u[1] * v[2] - u[2] * v[1]>>

Norm2(v) == Dot(v, v)

\* normal / area: v divided by half its length, a vector of length two.
NormalizeByArea(v) ==
    LET g == GCD(GCD(Abs(v[1]), Abs(v[2])), Abs(v[3]))
    IN <<2 * (v[1] \div g), 2 * (v[2] \div g), 2 * (v[3] \div g)>>

\* normal / norm: the unit vector of v's direction, kept as the primitive
\* integer vector of that direction.
Normalize(v) ==
    LET g == GCD(GCD(Abs(v[1]), Abs(v[2])), Abs(v[3]))
    IN <<v[1] \div g, v[2] \div g, v[3] \div g>>

(***************************************************************************)
(* mesh/types.rs                                                           *)
(***************************************************************************)
\* HexElement::faces: bottom, top, front, right, back, left; n is the
\* element's node_ids (n[1] is node_ids[0]).
HexFaces(n) ==
    << <<n[1], n[4], n[3], n[2]>>,
       <<n[5], n[6], n[7], n[8]>>,
       <<n[1], n[2], n[6], n[5]>>,
       <<n[2], n[3], n[7], n[6]>>,
       <<n[3], n[4], n[8], n[7]>>,
       <<n[4], n[1], n[5], n[8]>> >>

\* Position (1-based) of the first minimum of f: min_by_key returns the first
\* of several equal minima.
MinIdx(f) ==
    CHOOSE i \in 1..4 :
        \A j \in 1..4 : f[i] < f[j] \/ (f[i] = f[j] /\ i <= j)

\* nodes.rotate_left(k) for a 4-array, k counted from 0.
RotateLeft(f, k) ==
    <<f[(k % 4) + 1], f[((k + 1) % 4) + 1], f[((k + 2) % 4) + 1], f[((k + 3) % 4) + 1]>>

\* canonical() taking the reversed winding whatever the comparison says.
CanonicalAlwaysReversed(f) ==
    LET nodes == RotateLeft(f, MinIdx(f) - 1)
    IN <<nodes[1], nodes[4], nodes[3], nodes[2]>>

\* canonical() without the reversal: the rotation only.
CanonicalRotateOnly(f) == RotateLeft(f, MinIdx(f) - 1)

\* QuadFace::canonical: rotate the minimum to the front, then take the
\* reversed winding when its tail is lexicographically smaller.
Canonical(f) ==
    LET nodes    == RotateLeft(f, MinIdx(f) - 1)
        reversed == <<nodes[1], nodes[4], nodes[3], nodes[2]>>
    IN IF LexLess(SubSeq(reversed, 2, 4), SubSeq(nodes, 2, 4))
       THEN reversed
       ELSE nodes

(***************************************************************************)
(* mesh/geometry.rs.  A Result is [ok |-> TRUE, val |-> v] or              *)
(* [ok |-> FALSE, err |-> kind].                                           *)
(***************************************************************************)
Ok(v) == [ok |-> TRUE, val |-> v]

Err(kind) == [ok |-> FALSE, err |-> kind]

\* get_node on each of the four node ids: the first id outside the node
\* array makes the whole computation return InvalidMeshTopology.
NodesInRange(face, nodes) == \A i \in 1..4 : face[i] \in 0..(Len(nodes) - 1)

\* The diagonal cross product (n2 - n0) x (n3 - n1).
DiagCross(face, nodes) ==
    Cross(VSub(nodes[face[3] + 1], nodes[face[1] + 1]),
          VSub(nodes[face[4] + 1], nodes[face[2] + 1]))

\* compute_face_normal; norm < 1e-12 is norm = 0 on integer coordinates.
ComputeFaceNormal(face, nodes) ==
    IF ~NodesInRange(face, nodes) THEN Err("InvalidMeshTopology")
    ELSE LET normal == DiagCross(face, nodes)
         IN IF Norm2(normal) = 0 THEN Err("GeometryError")
            ELSE Ok(Normalize(normal))

\* compute_face_centroid: (n0 + n1 + n2 + n3) / 4 (generated coordinates are
\* multiples of 4 apart so that the quotient is exact).
ComputeFaceCentroid(face, nodes) ==
    IF ~NodesInRange(face, nodes) THEN Err("InvalidMeshTopology")
    ELSE LET s == VAdd(VAdd(nodes[face[1] + 1], nodes[face[2] + 1]),
                       VAdd(nodes[face[3] + 1], nodes[face[4] + 1]))
         IN Ok(<<s[1] \div 4, s[2] \div 4, s[3] \div 4>>)

\* compute_face_area: |cross| / 2, the square root taken to the integer below.
ComputeFaceArea(face, nodes) ==
    IF ~NodesInRange(face, nodes) THEN Err("InvalidMeshTopology")
    ELSE LET cross == DiagCross(face, nodes)
         IN IF Norm2(cross) = 0 THEN Err("GeometryError")
            ELSE Ok(ISqrt(Norm2(cross)) \div 2)

\* signed_distance_to_plane: (point - plane_point) . plane_normal
SignedDistanceToPlane(point, plane_point, plane_normal) ==
    Dot(VSub(point, plane_point), plane_normal)

\* project_point_to_plane: point - dist * plane_normal
ProjectPointToPlane(point, plane_point, plane_normal) ==
    VSub(point, VScale(SignedDistanceToPlane(point, plane_point, plane_normal),
                       plane_normal))

\* angle_between_vectors, in degrees.  acos is kept to the grid
\* 0, 10, 45, 90, 135, 180: the result is the angle itself when it is 0, 90
\* or 180 and otherwise the next grid value above it, so that
\* "angle <= t" is decided exactly for every threshold t of the grid
\* (cos^2 10 deg = 0.9698..., cos^2 45 deg = 1/2).  A zero vector gives 0.
AngleBetweenVectors(v1, v2) ==
    LET dot == Dot(v1, v2)
        n2  == Norm2(v1) * Norm2(v2)
    IN IF n2 = 0 THEN 0
       ELSE IF dot > 0
            THEN IF dot * dot = n2 THEN 0
                 ELSE IF dot * dot * 10000 >= 9698 * n2 THEN 10
                 ELSE IF dot * dot * 2 >= n2 THEN 45
                 ELSE 90
       ELSE IF dot = 0 THEN 90
       ELSE IF dot * dot * 2 <= n2 THEN 135
       ELSE 180

(***************************************************************************)
(* Iteration order of a std::collections::HashMap.  The order is a         *)
(* function of the map's hasher state (RandomState) and is not specified;  *)
(* a run may see any order.  The model draws, for every map that is        *)
(* iterated, one of NumHashSeeds hasher states; keys are integer tuples    *)
(* and are visited by increasing hash, equal hashes in key order.          *)
(***************************************************************************)
\* All orders of a finite set, as sequences.
Enumerations(S) ==
    {s \in [1..Cardinality(S) -> S] : \A i, j \in DOMAIN s : i # j => s[i] # s[j]}

RECURSIVE KeyHashFrom(_, _, _, _)
KeyHashFrom(key, seed, i, acc) ==
    IF i > Len(key) THEN acc
    ELSE KeyHashFrom(key, seed, i + 1, (acc * (29 + 8 * seed) + key[i] + seed) % 251)

KeyHash(key, seed) ==
    IF seed = 1 THEN 0 ELSE KeyHashFrom(key, seed, 1, 7 * seed)

\* The elements of a finite set as a sequence, in some order.
RECURSIVE SeqOf(_)
SeqOf(S) ==
    IF S = {} THEN <<>>
    ELSE LET x == CHOOSE y \in S : TRUE
         IN <<x>> \o SeqOf(S \ {x})

\* The keys in the order a map with hasher state `seed` yields them: by
\* increasing hash, equal hashes in key order.
IterOrder(keys, seed) ==
    LET h == Tabulated([k \in keys |-> KeyHash(k, seed)])
        Before(a, b) == h[a] < h[b] \/ (h[a] = h[b] /\ LexLess(a, b))
    IN SortSeq(SeqOf(keys), Before)

HashSeeds == 1..NumHashSeeds

\* The orders in which a run may visit the keys of a HashMap.
IterOrders(keys) == {IterOrder(keys, seed) : seed \in HashSeeds}

(***************************************************************************)
(* The meshes extract_surface is run on.  Cells of a lattice of hexes      *)
(* (three columns along x in layer 0, and the cell above the first one),   *)
(* any non-empty choice of at most MaxElems cells, every cell in block     *)
(* "A" or "B" (cells <<1, 0>> and <<0, 1>> share one edge only); three    *)
(* numberings; a flat lattice or one whose columns are sheared in z so     *)
(* that the top faces of neighbouring columns are 0, 7.1 and 14.0 degrees  *)
(* off the z axis; and, on the flat lattice numbered row by row, the      *)
(* malformed meshes listed at Defects (with one more hex glued onto the    *)
(* top face of element 0, a face lies on three elements when the cell      *)
(* above element 0 is present too).                                        *)
(***************************************************************************)
Cols == 0..2

Layers == 0..1

Cells == {c \in Cols \X Layers : c[2] = 0 \/ c[1] = 0}

BlockNames == <<"A", "B">>

Profiles == [flat |-> <<0, 0, 0, 0>>, curved |-> <<0, 0, 2, 6>>]

LatticeNodeCount == (Cardinality(Cols) + 1) * 2 * (Cardinality(Layers) + 1)

\* Node id of lattice point (i, j, k) under a numbering.  "asc" numbers the
\* points row by row, layer by layer; "ring" numbers the
\* points of columns 0-1 as the meshes of the tests of surface.rs do (the
\* four points of a layer counter-clockwise, 4 more per layer: the hex of
\* cell <<0, 0>> is [0, 1, 2, 3, 4, 5, 6, 7], the one above it
\* [4, 5, 6, 7, 8, 9, 10, 11]) and the points of columns 2-3 likewise after
\* them; "strided" scatters the ids.
NodeId(i, j, k, numbering) ==
    LET asc   == i + (Cardinality(Cols) + 1) * j + (Cardinality(Cols) + 1) * 2 * k
        round == IF j = 0 THEN i % 2 ELSE 3 - (i % 2)
        ring  == (IF i < 2 THEN 0 ELSE LatticeNodeCount \div 2) + round + 4 * k
    IN IF numbering = "asc" THEN asc
       ELSE IF numbering = "ring" THEN ring ELSE (13 * asc) % LatticeNodeCount

LatticePoint(i, j, k, profile) == <<16 * i, 16 * j, 16 * k + Profiles[profile][i + 1]>>

LatticePoints == (0..Cardinality(Cols)) \X (0..1) \X (0..Cardinality(Layers))

\* The node array: entry id+1 is the position of the lattice point numbered id.
LatticeNodes(numbering, profile) ==
    Tabulated([n \in 1..LatticeNodeCount |->
        LET p == CHOOSE q \in LatticePoints : NodeId(q[1], q[2], q[3], numbering) = n - 1
        IN LatticePoint(p[1], p[2], p[3], profile)])

\* The hex of cell <<i, k>>: bottom ring counter-clockwise seen from above,
\* then the top ring above it (the Exodus II ordering of HexElement).
CellElement(c, numbering) ==
    LET i == c[1]
        k == c[2]
    IN <<NodeId(i, 0, k, numbering),     NodeId(i + 1, 0, k, numbering),
         NodeId(i + 1, 1, k, numbering), NodeId(i, 1, k, numbering),
         NodeId(i, 0, k + 1, numbering),     NodeId(i + 1, 0, k + 1, numbering),
         NodeId(i + 1, 1, k + 1, numbering), NodeId(i, 1, k + 1, numbering)>>

CellBefore(c, d) == LexLess(<<c[2], c[1]>>, <<d[2], d[1]>>)

RECURSIVE CellSeq(_)
CellSeq(cs) ==
    IF cs = {} THEN <<>>
    ELSE LET first == CHOOSE c \in cs : \A d \in cs \ {c} : CellBefore(c, d)
         IN <<first>> \o CellSeq(cs \ {first})

\* Indices (0-based, increasing) of the elements a block lists.
RECURSIVE ElemsOfBlock(_, _, _)
ElemsOfBlock(blockOf, b, i) ==
    IF i > Len(blockOf) THEN <<>>
    ELSE (IF blockOf[i] = b THEN <<i - 1>> ELSE <<>>) \o ElemsOfBlock(blockOf, b, i + 1)

\* The ways a generated mesh departs from a sound lattice mesh:
\*   extra_on_top   a further hex whose bottom face is the top face of
\*                  element 0 (four new nodes above it, sheared in x);
\*   flat_on_top    the same hex with its four new nodes at the positions of
\*                  its bottom nodes, so that its side faces have no area;
\*   flat_unlisted  flat_on_top, and no block lists the further hex;
\*   bad_node       node_ids[6] of the last element is an index one past
\*                  the end of the node array;
\*   twin_bad_node  bad_node, and the elements array holds that element twice;
\*   phantom_elem   the first block also lists an element index one past
\*                  the end of the elements array.
Defects ==
    {"extra_on_top", "flat_on_top", "flat_unlisted", "bad_node", "twin_bad_node", "phantom_elem"}

\* Stands for "listed by no block" in the element-to-block table of MakeMesh.
Unlisted == ""

MakeMesh(cs, assign, numbering, profile, defect) ==
    LET cells   == CellSeq(cs)
        last    == Len(cells)
        sound   == [e \in 1..last |-> CellElement(cells[e], numbering)]
        base    == IF defect \in {"bad_node", "twin_bad_node"}
                   THEN [sound EXCEPT ![last][7] = LatticeNodeCount]
                   ELSE sound
        nodes0  == LatticeNodes(numbering, profile)
        onTop   == defect \in {"extra_on_top", "flat_on_top", "flat_unlisted"}
        top     == SubSeq(sound[1], 5, 8)
        extra   == top \o <<LatticeNodeCount, LatticeNodeCount + 1,
                            LatticeNodeCount + 2, LatticeNodeCount + 3>>
        offset  == IF defect = "extra_on_top" THEN <<4, 0, 16>> ELSE <<0, 0, 0>>
        xnodes  == [n \in 1..4 |-> VAdd(nodes0[top[n] + 1], offset)]
        elems   == IF onTop THEN Append(base, extra)
                   ELSE IF defect = "twin_bad_node" THEN Append(base, base[last])
                   ELSE base
        blockOf == [e \in 1..Len(elems) |->
                       IF e <= last THEN assign[cells[e]]
                       ELSE IF defect = "flat_unlisted" THEN Unlisted
                       ELSE IF onTop THEN assign[cells[1]] ELSE assign[cells[last]]]
        phantom == [b \in Range(blockOf) |->
                       IF defect = "phantom_elem" /\ b = BlockNames[1]
                       THEN <<Len(elems)>> ELSE <<>>]
    IN [nodes          |-> IF onTop THEN nodes0 \o xnodes ELSE nodes0,
        elements       |-> elems,
        element_blocks |-> [b \in Range(blockOf) \ {Unlisted} |->
                               ElemsOfBlock(blockOf, b, 1) \o phantom[b]]]

CellChoices == {cs \in SUBSET Cells : cs # {} /\ Cardinality(cs) <= MaxElems}

Numberings == {"asc", "ring", "strided"}

\* The ways to put the cells into blocks; element 0 is in the first block
\* (swapping the two names gives the other assignments).
BlockAssignments(cs) ==
    {assign \in [cs -> Range(BlockNames)] : assign[CellSeq(cs)[1]] = BlockNames[1]}

\* Sound meshes under every numbering and profile, and the defective ones
\* on the flat lattice numbered row by row.
Meshes ==
    UNION {{MakeMesh(cs, assign, numbering, profile, "none") :
               assign \in BlockAssignments(cs),
               numbering \in Numberings, profile \in {"flat", "curved"}}
           \cup {MakeMesh(cs, assign, "asc", "flat", defect) :
                    assign \in BlockAssignments(cs), defect \in Defects}
           : cs \in CellChoices}

(***************************************************************************)
(* mesh/surface.rs                                                         *)
(***************************************************************************)
\* const MAX_COPLANAR_ANGLE: f64 = 10.0
MAX_COPLANAR_ANGLE == 10

\* The canonical faces pushed by the double loop of build_face_adjacency, in
\* push order: entry p+1 belongs to element p div 6, face p mod 6.
PushedFaces(m) ==
    Tabulated([q \in 1..(6 * Len(m.elements)) |->
        Canonical(HexFaces(m.elements[((q - 1) \div 6) + 1])[((q - 1) % 6) + 1])])

RECURSIVE PushedElems(_, _, _)
PushedElems(pushed, key, q) ==
    IF q > Len(pushed) THEN <<>>
    ELSE (IF pushed[q] = key THEN <<(q - 1) \div 6>> ELSE <<>>)
         \o PushedElems(pushed, key, q + 1)

\* build_face_adjacency: canonical face -> the elements that pushed it, in
\* push order.  It has no failing path: it always returns Ok.
BuildFaceAdjacency(m) ==
    LET pushed == PushedFaces(m)
    IN Tabulated([key \in Range(pushed) |-> PushedElems(pushed, key, 1)])

\* extract_boundary_faces taking every key, whatever its element list.
ExtractEveryFace(adjacency) ==
    [face \in DOMAIN adjacency |-> adjacency[face][1]]

\* extract_boundary_faces taking every key with at most two elements.
ExtractFacesUpToTwo(adjacency) ==
    [face \in {k \in DOMAIN adjacency : Len(adjacency[k]) <= 2} |-> adjacency[face][1]]

\* extract_boundary_faces: the keys whose element list has length 1, each
\* mapped to that element.
ExtractBoundaryFaces(adjacency) ==
    [face \in {k \in DOMAIN adjacency : Len(adjacency[k]) = 1} |-> adjacency[face][1]]

\* elem_to_block of group_by_block.  Every generated mesh lists an element
\* in at most one block, so the order of the inserts cannot matter.
ElemToBlock(m) ==
    LET listed == UNION {Range(m.element_blocks[b]) : b \in DOMAIN m.element_blocks}
    IN [e \in listed |-> CHOOSE b \in DOMAIN m.element_blocks :
                             e \in Range(m.element_blocks[b])]

\* The faces of `order` (boundary_faces in iteration order) owned by block b.
RECURSIVE FacesOfBlock(_, _, _, _, _)
FacesOfBlock(order, boundary, e2b, b, i) ==
    IF i > Len(order) THEN <<>>
    ELSE (IF e2b[boundary[order[i]]] = b THEN <<order[i]>> ELSE <<>>)
         \o FacesOfBlock(order, boundary, e2b, b, i + 1)

\* The grouping loop missing the first face it is handed.
GroupFacesAfterFirst(m, boundary, order) ==
    LET e2b == Tabulated(ElemToBlock(m))
    IN IF \E i \in 1..Len(order) : boundary[order[i]] \notin DOMAIN e2b
       THEN Err("InvalidMeshTopology")
       ELSE Ok([b \in {e2b[boundary[f]] : f \in DOMAIN boundary} |->
                   FacesOfBlock(order, boundary, e2b, b, 2)])

\* The grouping loop of group_by_block (lines 86-102) over boundary_faces
\* visited in `order`: an owning element that no block lists ends the run
\* with InvalidMeshTopology.
GroupFaces(m, boundary, order) ==
    LET e2b == Tabulated(ElemToBlock(m))
    IN IF \E i \in 1..Len(order) : boundary[order[i]] \notin DOMAIN e2b
       THEN Err("InvalidMeshTopology")
       ELSE Ok([b \in {e2b[boundary[f]] : f \in DOMAIN boundary} |->
                   FacesOfBlock(order, boundary, e2b, b, 1)])

\* The four edges of a quad face, each as (smaller node, larger node).
FaceEdges(face) ==
    [e \in 1..4 |->
        LET n1 == face[e]
            n2 == face[(e % 4) + 1]
        IN IF n1 < n2 THEN <<n1, n2>> ELSE <<n2, n1>>]

\* The canonical edges pushed by the double loop of
\* build_boundary_face_adjacency, in push order: entry p+1 belongs to face
\* p div 4, edge p mod 4.
PushedEdges(faces) ==
    Tabulated([q \in 1..(4 * Len(faces)) |->
        FaceEdges(faces[((q - 1) \div 4) + 1])[((q - 1) % 4) + 1]])

EdgeKeys(faces) == Range(PushedEdges(faces))

\* The first loop of build_boundary_face_adjacency from push q on:
\* edge_to_faces.entry(edge).or_default().push(face_idx).
RECURSIVE EdgeToFaces(_, _, _)
EdgeToFaces(pushed, q, edge_to_faces) ==
    IF q > Len(pushed) THEN edge_to_faces
    ELSE EdgeToFaces(pushed, q + 1,
                     [edge_to_faces EXCEPT ![pushed[q]] = Append(@, (q - 1) \div 4)])

\* The second loop of build_boundary_face_adjacency, over
\* edge_to_faces.values() in `edgeOrder`: only an edge with exactly two
\* entries links its two faces.
RECURSIVE LinkEdges(_, _, _, _)
LinkEdges(edge_to_faces, edgeOrder, i, adjacency) ==
    IF i > Len(edgeOrder) THEN adjacency
    ELSE LET face_indices == edge_to_faces[edgeOrder[i]]
         IN IF Len(face_indices) = 2
            THEN LET face_a == face_indices[1]
                     face_b == face_indices[2]
                     withA  == [adjacency EXCEPT ![face_a] = Append(@, face_b)]
                 IN LinkEdges(edge_to_faces, edgeOrder, i + 1,
                              [withA EXCEPT ![face_b] = Append(@, face_a)])
            ELSE LinkEdges(edge_to_faces, edgeOrder, i + 1, adjacency)

\* An adjacency that links every face to every other face of the block.
BuildCompleteAdjacency(faces, edgeOrder) ==
    Tabulated([i \in 0..(Len(faces) - 1) |->
        [k \in 1..(Len(faces) - 1) |-> IF k - 1 < i THEN k - 1 ELSE k]])

\* build_boundary_face_adjacency: face index -> adjacent face indices (a
\* face the map has no entry for has the empty list here).
BuildBoundaryFaceAdjacency(faces, edgeOrder) ==
    LET pushed == PushedEdges(faces)
        edge_to_faces == EdgeToFaces(pushed, 1, Tabulated([e \in Range(pushed) |-> <<>>]))
    IN LinkEdges(edge_to_faces, edgeOrder, 1,
                 Tabulated([i \in 0..(Len(faces) - 1) |-> <<>>]))

\* collect::<Result<Vec<_>>>() of a per-face computation: the first error
\* in face order, or all the values.
RECURSIVE CollectResults(_, _, _)
CollectResults(rs, i, acc) ==
    IF i > Len(rs) THEN Ok(acc)
    ELSE IF ~rs[i].ok THEN rs[i]
    ELSE CollectResults(rs, i + 1, Append(acc, rs[i].val))

\* build_surface_mesh: normal, then centroid, then area of every face, in
\* face order (rayon's indexed collect keeps that order on the parallel path).
FaceProps(face, nodes) ==
    LET normal   == ComputeFaceNormal(face, nodes)
        centroid == ComputeFaceCentroid(face, nodes)
        area     == ComputeFaceArea(face, nodes)
    IN IF ~normal.ok THEN normal
       ELSE IF ~centroid.ok THEN centroid
       ELSE IF ~area.ok THEN area
       ELSE Ok(<<normal.val, centroid.val, area.val>>)

BuildSurfaceMesh(part_name, faces, nodes) ==
    LET props == CollectResults(Tabulated([i \in DOMAIN faces |-> FaceProps(faces[i], nodes)]), 1, <<>>)
    IN IF ~props.ok THEN props
       ELSE Ok([part_name      |-> part_name,
                faces          |-> faces,
                face_normals   |-> [i \in DOMAIN faces |-> props.val[i][1]],
                face_centroids |-> [i \in DOMAIN faces |-> props.val[i][2]],
                face_areas     |-> [i \in DOMAIN faces |-> props.val[i][3]]])

\* A name that counts the patches from one.
PatchNameFromOne(block_name, k) == block_name \o ":patch_" \o ToString(k + 1)

\* format!("{}:patch_{}", block_name, k)
PatchName(block_name, k) == block_name \o ":patch_" \o ToString(k)

\* An admission test that admits no neighbour.
CoplanarNever(seed_normal, adj_normal) == FALSE

\* The admission test of the BFS: the neighbour's normal against the SEED's.
Coplanar(seed_normal, adj_normal) ==
    AngleBetweenVectors(seed_normal, adj_normal) <= MAX_COPLANAR_ANGLE

\* The inner for loop over adjacent_indices (lines 175-188).
RECURSIVE AdmitNeighbours(_, _, _, _, _, _)
AdmitNeighbours(adjacent_indices, i, seed_normal, face_normals, queue, visited) ==
    IF i > Len(adjacent_indices) THEN [queue |-> queue, visited |-> visited]
    ELSE LET adj_idx == adjacent_indices[i]
         IN IF adj_idx \in visited
            THEN AdmitNeighbours(adjacent_indices, i + 1, seed_normal, face_normals,
                                 queue, visited)
            ELSE IF Coplanar(seed_normal, face_normals[adj_idx + 1])
            THEN AdmitNeighbours(adjacent_indices, i + 1, seed_normal, face_normals,
                                 Append(queue, adj_idx), visited \cup {adj_idx})
            ELSE AdmitNeighbours(adjacent_indices, i + 1, seed_normal, face_normals,
                                 queue, visited)

\* The BFS admitting a neighbour against the face it is reached from.
RECURSIVE BfsFrontier(_, _, _, _, _, _, _)
BfsFrontier(faces, adjacency, face_normals, seed_normal, queue, visited, patch_faces) ==
    IF queue = <<>> THEN [patch_faces |-> patch_faces, visited |-> visited]
    ELSE LET current_idx == Head(queue)
             r == AdmitNeighbours(adjacency[current_idx], 1,
                                  face_normals[current_idx + 1],
                                  face_normals, Tail(queue), visited)
         IN BfsFrontier(faces, adjacency, face_normals, seed_normal, r.queue,
                               r.visited, Append(patch_faces, faces[current_idx + 1]))

\* The while loop of the BFS (lines 170-190).
RECURSIVE Bfs(_, _, _, _, _, _, _)
Bfs(faces, adjacency, face_normals, seed_normal, queue, visited, patch_faces) ==
    IF queue = <<>> THEN [patch_faces |-> patch_faces, visited |-> visited]
    ELSE LET current_idx == Head(queue)
             r == AdmitNeighbours(adjacency[current_idx], 1, seed_normal,
                                  face_normals, Tail(queue), visited)
         IN Bfs(faces, adjacency, face_normals, seed_normal, r.queue, r.visited,
                Append(patch_faces, faces[current_idx + 1]))

\* The seed loop (lines 156-196): every face not yet visited starts a patch.
RECURSIVE SeedLoop(_, _, _, _, _, _, _, _)
SeedLoop(faces, nodes, block_name, adjacency, face_normals, seed_idx, visited, surface_patches) ==
    IF seed_idx >= Len(faces) THEN Ok(surface_patches)
    ELSE IF seed_idx \in visited
    THEN SeedLoop(faces, nodes, block_name, adjacency, face_normals, seed_idx + 1,
                  visited, surface_patches)
    ELSE LET r == Bfs(faces, adjacency, face_normals, face_normals[seed_idx + 1],
                      <<seed_idx>>, visited \cup {seed_idx}, <<>>)
             surface == BuildSurfaceMesh(PatchName(block_name, Len(surface_patches)),
                                         r.patch_faces, nodes)
         IN IF ~surface.ok THEN surface
            ELSE SeedLoop(faces, nodes, block_name, adjacency, face_normals,
                          seed_idx + 1, r.visited, Append(surface_patches, surface.val))

\* subdivide_into_surface_patches giving no patch for a block one of whose
\* normals cannot be computed, instead of the error.
SubdivideSkippingErrors(faces, nodes, block_name, edgeOrder) ==
    IF faces = <<>> THEN Ok(<<>>)
    ELSE LET adjacency == BuildBoundaryFaceAdjacency(faces, edgeOrder)
             normals   == CollectResults(
                              Tabulated([i \in DOMAIN faces |->
                                            ComputeFaceNormal(faces[i], nodes)]),
                              1, <<>>)
         IN IF ~normals.ok THEN Ok(<<>>)
            ELSE SeedLoop(faces, nodes, block_name, adjacency, normals.val, 0, {}, <<>>)

\* subdivide_into_surface_patches, with edge_to_faces visited in edgeOrder.
SubdivideIntoSurfacePatches(faces, nodes, block_name, edgeOrder) ==
    IF faces = <<>> THEN Ok(<<>>)
    ELSE LET adjacency == BuildBoundaryFaceAdjacency(faces, edgeOrder)
             normals   == CollectResults(
                              Tabulated([i \in DOMAIN faces |->
                                            ComputeFaceNormal(faces[i], nodes)]),
                              1, <<>>)
         IN IF ~normals.ok THEN normals
            ELSE SeedLoop(faces, nodes, block_name, adjacency, normals.val, 0, {}, <<>>)

(***************************************************************************)
(* extract_surface as a state machine.  One behaviour is one mesh and up   *)
(* to two runs of extract_surface on it; the second run starts from the    *)
(* same mesh with fresh maps and remembers what the first run returned.    *)
(***************************************************************************)
EmptyMap == [k \in {} |-> 0]

ContactIdle ==
    /\ surface_a = <<>>
    /\ surface_b = <<>>
    /\ criteria = <<>>
    /\ dpc = "idle"
    /\ face_results = <<>>
    /\ nearest_of = <<>>
    /\ overtook = FALSE
    /\ results = <<>>
    /\ metrics = <<>>

RangeIdle ==
    /\ range_c = <<>>
    /\ range_d = 0
    /\ range_ok = <<>>

CanonIdle ==
    /\ quad_f = <<>>
    /\ quad_g = <<>>
    /\ key_f = <<>>
    /\ key_g = <<>>
    /\ rekey_f = <<>>

SurfaceReset ==
    /\ pc = "build_face_adjacency"
    /\ face_adjacency = EmptyMap
    /\ boundary_faces = EmptyMap
    /\ block_faces = EmptyMap
    /\ block_queue = <<>>
    /\ surfaces = <<>>
    /\ outcome = "none"

SurfaceInit ==
    /\ mesh \in Meshes
    /\ SurfaceReset
    /\ prev_surfaces = <<>>
    /\ ContactIdle
    /\ CanonIdle
    /\ RangeIdle

\* let face_adjacency = build_face_adjacency(mesh)?;
BuildFaceAdjacencyStep ==
    /\ pc = "build_face_adjacency"
    /\ face_adjacency' = BuildFaceAdjacency(mesh)
    /\ pc' = "extract_boundary_faces"
    /\ UNCHANGED <<mesh, boundary_faces, block_faces, block_queue, surfaces,
                   outcome, prev_surfaces>>
    /\ UNCHANGED <<contactVars, canonVars, rangeVars>>

\* let boundary_faces = extract_boundary_faces(&face_adjacency);
ExtractBoundaryFacesStep ==
    /\ pc = "extract_boundary_faces"
    /\ boundary_faces' = ExtractBoundaryFaces(face_adjacency)
    /\ pc' = "group_by_block"
    /\ UNCHANGED <<mesh, face_adjacency, block_faces, block_queue, surfaces,
                   outcome, prev_surfaces>>
    /\ UNCHANGED <<contactVars, canonVars, rangeVars>>

\* group_by_block up to the loop over block_faces: boundary_faces is
\* visited in one of its iteration orders, and block_faces (keyed by the
\* block names, at most two of them) will be visited in any order.
GroupByBlockStep ==
    /\ pc = "group_by_block"
    /\ \E order \in IterOrders(DOMAIN boundary_faces) :
          LET g == GroupFaces(mesh, boundary_faces, order)
          IN IF ~g.ok
             THEN /\ pc' = "done"
                  /\ outcome' = g.err
                  /\ UNCHANGED <<block_faces, block_queue>>
             ELSE /\ \E blockOrder \in Enumerations(DOMAIN g.val) :
                        block_queue' = blockOrder
                  /\ block_faces' = g.val
                  /\ pc' = "subdivide"
                  /\ UNCHANGED outcome
    /\ UNCHANGED <<mesh, face_adjacency, boundary_faces, surfaces, prev_surfaces>>
    /\ UNCHANGED <<contactVars, canonVars, rangeVars>>

\* One turn of the loop over block_faces (lines 106-123): subdivide the
\* block's faces and extend the result; an error ends the run with no list.
SubdivideBlockStep ==
    /\ pc = "subdivide"
    /\ block_queue # <<>>
    /\ LET block_name == Head(block_queue)
           faces      == block_faces[block_name]
       IN \E edgeOrder \in IterOrders(EdgeKeys(faces)) :
             LET r == SubdivideIntoSurfacePatches(faces, mesh.nodes, block_name, edgeOrder)
             IN IF ~r.ok
                THEN /\ pc' = "done"
                     /\ outcome' = r.err
                     /\ surfaces' = <<>>
                     /\ UNCHANGED block_queue
                ELSE /\ surfaces' = surfaces \o r.val
                     /\ block_queue' = Tail(block_queue)
                     /\ UNCHANGED <<pc, outcome>>
    /\ UNCHANGED <<mesh, face_adjacency, boundary_faces, block_faces, prev_surfaces>>
    /\ UNCHANGED <<contactVars, canonVars, rangeVars>>

\* Ok(surfaces)
ReturnSurfaces ==
    /\ pc = "subdivide"
    /\ block_queue = <<>>
    /\ pc' = "done"
    /\ outcome' = "Ok"
    /\ UNCHANGED <<mesh, face_adjacency, boundary_faces, block_faces, block_queue,
                   surfaces, prev_surfaces>>
    /\ UNCHANGED <<contactVars, canonVars, rangeVars>>

\* The caller runs extract_surface on the same mesh once more.
RunAgain ==
    /\ pc = "done"
    /\ outcome = "Ok"
    /\ prev_surfaces = <<>>
    /\ prev_surfaces' = <<surfaces>>
    /\ pc' = "build_face_adjacency"
    /\ face_adjacency' = EmptyMap
    /\ boundary_faces' = EmptyMap
    /\ block_faces' = EmptyMap
    /\ block_queue' = <<>>
    /\ surfaces' = <<>>
    /\ outcome' = "none"
    /\ UNCHANGED mesh
    /\ UNCHANGED <<contactVars, canonVars, rangeVars>>

SurfaceNext ==
    \/ BuildFaceAdjacencyStep
    \/ ExtractBoundaryFacesStep
    \/ GroupByBlockStep
    \/ SubdivideBlockStep
    \/ ReturnSurfaces
    \/ RunAgain

SpecSurface == SurfaceInit /\ [][SurfaceNext]_vars

(***************************************************************************)
(* contact/types.rs                                                        *)
(***************************************************************************)
\* ContactCriteria::search_radius
SearchRadius(c) == c.max_gap_distance * c.search_radius_multiplier

\* is_in_range with both bounds excluded.
IsInRangeExclusive(c, distance) ==
    distance > -c.max_penetration /\ distance < c.max_gap_distance

\* is_in_range without the penetration bound.
IsInRangeNoFloor(c, distance) == distance <= c.max_gap_distance

\* ContactCriteria::is_in_range
IsInRange(c, distance) ==
    distance >= -c.max_penetration /\ distance <= c.max_gap_distance

\* ContactCriteria::is_angle_valid
IsAngleValid(c, angle) == angle <= c.max_normal_angle

(***************************************************************************)
(* contact/detection.rs.  An Option is <<>> (None) or <<v>> (Some(v)).     *)
(* Lengths are in units of 0.001.                                          *)
(***************************************************************************)
None == <<>>

Some(v) == <<v>>

\* Stands for f64::MAX, the initial best_distance_abs: above every |d| an
\* input of the model produces.
F64_MAX == 2147483647

\* build_face_kdtree: the centroids, the payload of entry i+1 being i.
BuildFaceKdtree(surface) == surface.face_centroids

SquaredEuclidean(p, q) == Norm2(VSub(p, q))

\* tree.within::<SquaredEuclidean>(query, r2) of the kiddo crate, whose code
\* is not part of the repository: the payloads of the points inside the
\* ball, in some order.  Points exactly on the sphere are all reported or
\* all left out; both, and every order, are possible outcomes here.
Within(tree, query, r2) ==
    LET inside == {i \in 0..(Len(tree) - 1) : SquaredEuclidean(tree[i + 1], query) < r2}
        upto   == {i \in 0..(Len(tree) - 1) : SquaredEuclidean(tree[i + 1], query) <= r2}
    IN Enumerations(inside) \cup Enumerations(upto)

\* The loop of find_best_match keeping the last surviving candidate.
RECURSIVE BestMatchLoopLast(_, _, _, _, _, _, _, _)
BestMatchLoopLast(face_a_idx, sa, sb, c, nearest, n, best_match, best_distance_abs) ==
    IF n > Len(nearest) THEN best_match
    ELSE LET face_b_idx == nearest[n]
             centroid_a == sa.face_centroids[face_a_idx + 1]
             normal_a   == sa.face_normals[face_a_idx + 1]
             centroid_b == sb.face_centroids[face_b_idx + 1]
             normal_b   == sb.face_normals[face_b_idx + 1]
             distance   == SignedDistanceToPlane(centroid_b, centroid_a, normal_a)
             angle      == AngleBetweenVectors(normal_a, normal_b)
         IN IF IsInRange(c, distance) /\ IsAngleValid(c, angle)
            THEN BestMatchLoopLast(face_a_idx, sa, sb, c, nearest, n + 1,
                     Some([surface_a_face_id |-> face_a_idx,
                           surface_b_face_id |-> face_b_idx,
                           distance          |-> distance,
                           normal_angle      |-> angle,
                           contact_point     |->
                               ProjectPointToPlane(centroid_a, centroid_b, normal_b)]),
                     best_distance_abs)
            ELSE BestMatchLoopLast(face_a_idx, sa, sb, c, nearest, n + 1,
                                   best_match, best_distance_abs)

\* The loop of find_best_match letting a later candidate of equal |d| replace
\* the best one.
RECURSIVE BestMatchLoopTiesLast(_, _, _, _, _, _, _, _)
BestMatchLoopTiesLast(face_a_idx, sa, sb, c, nearest, n, best_match, best_distance_abs) ==
    IF n > Len(nearest) THEN best_match
    ELSE LET face_b_idx == nearest[n]
             centroid_a == sa.face_centroids[face_a_idx + 1]
             normal_a   == sa.face_normals[face_a_idx + 1]
             centroid_b == sb.face_centroids[face_b_idx + 1]
             normal_b   == sb.face_normals[face_b_idx + 1]
             distance   == SignedDistanceToPlane(centroid_b, centroid_a, normal_a)
             angle      == AngleBetweenVectors(normal_a, normal_b)
             distance_abs == Abs(distance)
         IN IF ~IsInRange(c, distance)
            THEN BestMatchLoopTiesLast(face_a_idx, sa, sb, c, nearest, n + 1,
                               best_match, best_distance_abs)
            ELSE IF ~IsAngleValid(c, angle)
            THEN BestMatchLoopTiesLast(face_a_idx, sa, sb, c, nearest, n + 1,
                               best_match, best_distance_abs)
            ELSE IF distance_abs <= best_distance_abs
            THEN BestMatchLoopTiesLast(face_a_idx, sa, sb, c, nearest, n + 1,
                     Some([surface_a_face_id |-> face_a_idx,
                           surface_b_face_id |-> face_b_idx,
                           distance          |-> distance,
                           normal_angle      |-> angle,
                           contact_point     |->
                               ProjectPointToPlane(centroid_a, centroid_b, normal_b)]),
                     distance_abs)
            ELSE BestMatchLoopTiesLast(face_a_idx, sa, sb, c, nearest, n + 1,
                               best_match, best_distance_abs)

\* The loop of find_best_match over the neighbours from position n on.
RECURSIVE BestMatchLoop(_, _, _, _, _, _, _, _)
BestMatchLoop(face_a_idx, sa, sb, c, nearest, n, best_match, best_distance_abs) ==
    IF n > Len(nearest) THEN best_match
    ELSE LET face_b_idx == nearest[n]
             centroid_a == sa.face_centroids[face_a_idx + 1]
             normal_a   == sa.face_normals[face_a_idx + 1]
             centroid_b == sb.face_centroids[face_b_idx + 1]
             normal_b   == sb.face_normals[face_b_idx + 1]
             distance   == SignedDistanceToPlane(centroid_b, centroid_a, normal_a)
             angle      == AngleBetweenVectors(normal_a, normal_b)
             distance_abs == Abs(distance)
         IN IF ~IsInRange(c, distance)
            THEN BestMatchLoop(face_a_idx, sa, sb, c, nearest, n + 1,
                               best_match, best_distance_abs)
            ELSE IF ~IsAngleValid(c, angle)
            THEN BestMatchLoop(face_a_idx, sa, sb, c, nearest, n + 1,
                               best_match, best_distance_abs)
            ELSE IF distance_abs < best_distance_abs
            THEN BestMatchLoop(face_a_idx, sa, sb, c, nearest, n + 1,
                     Some([surface_a_face_id |-> face_a_idx,
                           surface_b_face_id |-> face_b_idx,
                           distance          |-> distance,
                           normal_angle      |-> angle,
                           contact_point     |->
                               ProjectPointToPlane(centroid_a, centroid_b, normal_b)]),
                     distance_abs)
            ELSE BestMatchLoop(face_a_idx, sa, sb, c, nearest, n + 1,
                               best_match, best_distance_abs)

\* find_best_match reporting the B face by its position counted from one.
FindBestMatchFromOne(face_a_idx, sa, sb, c, nearest) ==
    LET best == BestMatchLoop(face_a_idx, sa, sb, c, nearest, 1, None, F64_MAX)
    IN IF best = None THEN None
       ELSE Some([best[1] EXCEPT !.surface_b_face_id = @ + 1])

\* find_best_match, given what the spatial query returned.
FindBestMatch(face_a_idx, sa, sb, c, nearest) ==
    BestMatchLoop(face_a_idx, sa, sb, c, nearest, 1, None, F64_MAX)

\* The collecting loop listing every A face as unpaired.
RECURSIVE CollectPairsNoElse(_, _, _)
CollectPairsNoElse(fr, n, acc) ==
    IF n > Len(fr) THEN acc
    ELSE IF fr[n] # None
    THEN CollectPairsNoElse(fr, n + 1,
             [acc EXCEPT !.pairs      = Append(@, fr[n][1]),
                         !.paired_b   = @ \cup {fr[n][1].surface_b_face_id},
                         !.unpaired_a = Append(@, n - 1)])
    ELSE CollectPairsNoElse(fr, n + 1, [acc EXCEPT !.unpaired_a = Append(@, n - 1)])

\* The collecting loop (lines 75-86) from slot n on.
RECURSIVE CollectPairs(_, _, _)
CollectPairs(fr, n, acc) ==
    IF n > Len(fr) THEN acc
    ELSE IF fr[n] # None
    THEN CollectPairs(fr, n + 1,
             [acc EXCEPT !.pairs    = Append(@, fr[n][1]),
                         !.paired_b = @ \cup {fr[n][1].surface_b_face_id}])
    ELSE CollectPairs(fr, n + 1, [acc EXCEPT !.unpaired_a = Append(@, n - 1)])

\* The filter stopping one index short of n.
RECURSIVE UnpairedBShort(_, _, _)
UnpairedBShort(n, paired_b, i) ==
    IF i >= n - 1 THEN <<>>
    ELSE (IF i \notin paired_b THEN <<i>> ELSE <<>>) \o UnpairedBShort(n, paired_b, i + 1)

\* (0..n).filter(|i| !paired_b.contains(i)).collect(), from i on.
RECURSIVE UnpairedB(_, _, _)
UnpairedB(n, paired_b, i) ==
    IF i >= n THEN <<>>
    ELSE (IF i \notin paired_b THEN <<i>> ELSE <<>>) \o UnpairedB(n, paired_b, i + 1)

(***************************************************************************)
(* The inputs of detect_contact_pairs.  A patch is a list of faces, each   *)
(* given by its centroid and unit normal (the two per-face arrays the      *)
(* matcher reads; the arrays of a patch have equal lengths).               *)
(***************************************************************************)
\* Most faces of patch A / of patch B.
MaxFacesA == 2

MaxFacesB == 2

(***************************************************************************)
(* contact/metrics.rs.  Areas are whole numbers of unit squares.  The      *)
(* averages and the standard deviation of SurfaceMetrics are quotients of  *)
(* floats and are left out of the record.                                  *)
(***************************************************************************)
\* Stands for f64::MIN, the initial max_dist.
F64_MIN == -2147483647

\* surface.face_areas.iter().sum()
RECURSIVE SumAreas(_, _)
SumAreas(face_areas, n) ==
    IF n > Len(face_areas) THEN 0 ELSE face_areas[n] + SumAreas(face_areas, n + 1)

\* The loop over results.pairs (lines 53-61).
RECURSIVE PairedLoop(_, _, _, _)
PairedLoop(pairs, n, face_areas, acc) ==
    IF n > Len(pairs) THEN acc
    ELSE LET pair      == pairs[n]
             face_area == face_areas[pair.surface_a_face_id + 1]
         IN PairedLoop(pairs, n + 1, face_areas,
                [paired_area |-> acc.paired_area + face_area,
                 min_dist    |-> IF pair.distance < acc.min_dist
                                 THEN pair.distance ELSE acc.min_dist,
                 max_dist    |-> IF pair.distance > acc.max_dist
                                 THEN pair.distance ELSE acc.max_dist])

\* compute taking the area of the first face for every pair.
SurfaceMetricsFirstArea(res, surface) ==
    LET total_area  == SumAreas(surface.face_areas, 1)
        paired_area == Len(res.pairs) * surface.face_areas[1]
    IN [total_area    |-> total_area,
        paired_area   |-> paired_area,
        unpaired_area |-> total_area - paired_area,
        min_distance  |-> 0,
        max_distance  |-> 0,
        num_pairs     |-> Len(res.pairs),
        num_unpaired  |-> Len(res.unpaired_a)]

\* SurfaceMetrics::compute
SurfaceMetricsCompute(res, surface) ==
    LET total_area == SumAreas(surface.face_areas, 1)
        acc        == PairedLoop(res.pairs, 1, surface.face_areas,
                          [paired_area |-> 0, min_dist |-> F64_MAX, max_dist |-> F64_MIN])
        num_pairs  == Len(res.pairs)
    IN [total_area    |-> total_area,
        paired_area   |-> acc.paired_area,
        unpaired_area |-> total_area - acc.paired_area,
        min_distance  |-> IF num_pairs > 0 THEN acc.min_dist ELSE 0,
        max_distance  |-> IF num_pairs > 0 THEN acc.max_dist ELSE 0,
        num_pairs     |-> num_pairs,
        num_unpaired  |-> Len(res.unpaired_a)]

\* Faces of A: in the plane z = 0, normal +z.
FacesA == << [centroid |-> <<0, 0, 0>>, normal |-> <<0, 0, 1>>, area |-> 1],
             [centroid |-> <<3, 0, 0>>, normal |-> <<0, 0, 1>>, area |-> 2] >>

\* Faces of B: above the first face of A at heights 1, 3 and 5 or below it,
\* facing A (normal -z) or away from it.
FacesB == << [centroid |-> <<0, 0, 1>>,  normal |-> <<0, 0, -1>>, area |-> 1],
             [centroid |-> <<0, 0, 1>>,  normal |-> <<0, 0, 1>>,  area |-> 1],
             [centroid |-> <<0, 0, -1>>, normal |-> <<0, 0, -1>>, area |-> 2],
             [centroid |-> <<0, 0, 3>>,  normal |-> <<0, 0, -1>>, area |-> 1],
             [centroid |-> <<0, 0, 5>>,  normal |-> <<0, 0, -1>>, area |-> 3] >>

Patch(fs) ==
    [face_centroids |-> [i \in DOMAIN fs |-> fs[i].centroid],
     face_normals   |-> [i \in DOMAIN fs |-> fs[i].normal],
     face_areas     |-> [i \in DOMAIN fs |-> fs[i].area]]

\* The patches of 1..maxFaces faces drawn from faceTypes, a face type
\* never listed before an earlier one; with gap = 1 no face type is listed
\* twice, with gap = 0 a patch may repeat a face.
Patches(faceTypes, maxFaces, gap) ==
    UNION {{Patch([i \in 1..n |-> faceTypes[ix[i]]]) :
               ix \in {jx \in [1..n -> DOMAIN faceTypes] :
                          \A i \in 1..(n - 1) : jx[i] + gap <= jx[i + 1]}} :
           n \in 1..maxFaces}

\* Records with a negative tolerance or a non-positive multiplier: the
\* fields are plain f64 and ContactCriteria::new takes any values.
OutOfRangeCriteria ==
    {[max_gap_distance |-> -1, max_penetration |-> 1,
      max_normal_angle |-> 180, search_radius_multiplier |-> 2],
     [max_gap_distance |-> 2, max_penetration |-> -1,
      max_normal_angle |-> 180, search_radius_multiplier |-> 2],
     [max_gap_distance |-> 2, max_penetration |-> 0,
      max_normal_angle |-> -45, search_radius_multiplier |-> 2],
     [max_gap_distance |-> 2, max_penetration |-> 0,
      max_normal_angle |-> 180, search_radius_multiplier |-> 0],
     [max_gap_distance |-> 2, max_penetration |-> 0,
      max_normal_angle |-> 180, search_radius_multiplier |-> -1]}

CriteriaChoices ==
    [max_gap_distance : {2, 5}, max_penetration : {0, 1},
     max_normal_angle : {45, 180}, search_radius_multiplier : {1, 2}]
    \cup OutOfRangeCriteria

Pending == "pending"

SurfaceIdle ==
    /\ mesh = <<>>
    /\ pc = "idle"
    /\ face_adjacency = EmptyMap
    /\ boundary_faces = EmptyMap
    /\ block_faces = EmptyMap
    /\ block_queue = <<>>
    /\ surfaces = <<>>
    /\ outcome = "none"
    /\ prev_surfaces = <<>>

\* B is a patch of its own or the very patch given as A.
\* The branch of lines 43-72 is an input here: "par_search" is the par_iter
\* branch (taken for 1000 faces or more with the feature "parallel"),
\* "search" the iter branch.  Both drive the same closure.
ContactInit ==
    /\ surface_a \in Patches(FacesA, MaxFacesA, 0)
    /\ surface_b \in Patches(FacesB, MaxFacesB, 1) \cup {surface_a}
    /\ criteria \in CriteriaChoices
    /\ dpc \in {"search", "par_search"}
    /\ face_results = [i \in 1..Len(surface_a.face_centroids) |-> Pending]
    /\ nearest_of = [i \in 1..Len(surface_a.face_centroids) |-> <<>>]
    /\ overtook = FALSE
    /\ results = [pairs |-> <<>>, unpaired_a |-> <<>>, unpaired_b |-> <<>>]
    /\ metrics = <<>>
    /\ SurfaceIdle
    /\ CanonIdle
    /\ RangeIdle

\* collect() placing the item in a slot other than its index: the first
\* slot still free, as a collect in completion order would.
StoreAsCompleted(slots, face_a_idx, item) ==
    LET free == CHOOSE i \in DOMAIN slots :
                    slots[i] = Pending /\ \A j \in 1..(i - 1) : slots[j] # Pending
    IN [slots EXCEPT ![free] = item]

\* .enumerate().map(..).collect() into a Vec, on iter and on par_iter (an
\* indexed parallel iterator): item face_a_idx lands in slot face_a_idx.
StoreResult(slots, face_a_idx, item) == [slots EXCEPT ![face_a_idx + 1] = item]

\* The closure of the map for one A face: the query and find_best_match.
SearchFace(face_a_idx) ==
    LET centroid_a    == surface_a.face_centroids[face_a_idx + 1]
        search_radius == SearchRadius(criteria)
    IN \E nearest \in Within(BuildFaceKdtree(surface_b), centroid_a,
                             search_radius * search_radius) :
          /\ nearest_of' = [nearest_of EXCEPT ![face_a_idx + 1] = nearest]
          /\ face_results' = StoreResult(face_results, face_a_idx,
                 FindBestMatch(face_a_idx, surface_a, surface_b, criteria, nearest))

\* One item of the sequential map (lines 54-61): the faces in index order.
FindBestMatchStep ==
    /\ dpc = "search"
    /\ \E face_a_idx \in 0..(Len(face_results) - 1) :
          /\ face_results[face_a_idx + 1] = Pending
          /\ \A j \in 1..face_a_idx : face_results[j] # Pending
          /\ SearchFace(face_a_idx)
    /\ UNCHANGED <<surface_a, surface_b, criteria, dpc, overtook, results, metrics>>
    /\ UNCHANGED <<surfaceVars, canonVars, rangeVars>>

\* One item of the parallel map (lines 45-52): any face not yet searched
\* may finish next.
ParFindBestMatchStep ==
    /\ dpc = "par_search"
    /\ \E face_a_idx \in 0..(Len(face_results) - 1) :
          /\ face_results[face_a_idx + 1] = Pending
          /\ SearchFace(face_a_idx)
          /\ overtook' = (overtook \/ \E j \in 1..face_a_idx : face_results[j] = Pending)
    /\ UNCHANGED <<surface_a, surface_b, criteria, dpc, results, metrics>>
    /\ UNCHANGED <<surfaceVars, canonVars, rangeVars>>

\* Lines 74-115: collect the pairs, list the unpaired faces, return.
CollectStep ==
    /\ dpc \in {"search", "par_search"}
    /\ \A i \in DOMAIN face_results : face_results[i] # Pending
    /\ LET acc == CollectPairs(face_results, 1,
                      [pairs |-> <<>>, unpaired_a |-> <<>>, paired_b |-> {}])
       IN results' = [pairs      |-> acc.pairs,
                      unpaired_a |-> acc.unpaired_a,
                      unpaired_b |-> UnpairedB(Len(surface_b.face_centroids),
                                               acc.paired_b, 0)]
    /\ dpc' = IF dpc = "search" THEN "done" ELSE "par_done"
    /\ UNCHANGED <<surface_a, surface_b, criteria, face_results, nearest_of, overtook,
                   metrics>>
    /\ UNCHANGED <<surfaceVars, canonVars, rangeVars>>

\* let metrics = SurfaceMetrics::compute(&results, &surface_a), as the
\* callers of detect_contact_pairs do with what it returned.
ComputeMetricsStep ==
    /\ dpc \in {"done", "par_done"}
    /\ metrics = None
    /\ metrics' = Some(SurfaceMetricsCompute(results, surface_a))
    /\ UNCHANGED <<surface_a, surface_b, criteria, dpc, face_results, nearest_of,
                   overtook, results>>
    /\ UNCHANGED <<surfaceVars, canonVars, rangeVars>>

ContactNext ==
    \/ FindBestMatchStep
    \/ ParFindBestMatchStep
    \/ CollectStep
    \/ ComputeMetricsStep

SpecContact == ContactInit /\ [][ContactNext]_vars

(***************************************************************************)
(* QuadFace::canonical applied to quad faces: two faces are keyed, and the *)
(* key of the first is keyed again.                                        *)
(***************************************************************************)
\* Largest node index of a generated quad face.
MaxNodeId == 4

\* The quad faces of four distinct node indices.
Quads ==
    {q \in [1..4 -> 0..MaxNodeId] : \A i, j \in 1..4 : i # j => q[i] # q[j]}

CanonInit ==
    /\ quad_f \in Quads
    /\ quad_g \in Quads
    /\ key_f = None
    /\ key_g = None
    /\ rekey_f = None
    /\ SurfaceIdle
    /\ ContactIdle
    /\ RangeIdle

\* face.canonical() on both faces, as build_face_adjacency keys them.
CanonicalStep ==
    /\ key_f = None
    /\ key_f' = Some(Canonical(quad_f))
    /\ key_g' = Some(Canonical(quad_g))
    /\ UNCHANGED <<quad_f, quad_g, rekey_f>>
    /\ UNCHANGED <<surfaceVars, contactVars, rangeVars>>

\* canonical() on a face that is already a key.
RecanonicalStep ==
    /\ key_f # None
    /\ rekey_f = None
    /\ rekey_f' = Some(Canonical(key_f[1]))
    /\ UNCHANGED <<quad_f, quad_g, key_f, key_g>>
    /\ UNCHANGED <<surfaceVars, contactVars, rangeVars>>

CanonNext ==
    \/ CanonicalStep
    \/ RecanonicalStep

SpecCanonical == CanonInit /\ [][CanonNext]_vars

(***************************************************************************)
(* ContactCriteria::is_in_range applied to a distance.  Lengths are in     *)
(* units of 0.0001 here, so that the distances of                          *)
(* test_contact_criteria_is_in_range are integers.                         *)
(***************************************************************************)
\* Distances run from -25 to 5 * MaxRangeSteps in steps of 5.
MaxRangeSteps == 21

RangeDistances == {5 * k : k \in -5..MaxRangeSteps}

\* ContactCriteria::default() is the record with 50 (0.005) and 10 (0.001).
RangeCriteria ==
    [max_gap_distance : {0, 20, 50}, max_penetration : {0, 10, 20},
     max_normal_angle : {45}, search_radius_multiplier : {2}]

RangeInit ==
    /\ range_c \in RangeCriteria
    /\ range_d \in RangeDistances
    /\ range_ok = None
    /\ SurfaceIdle
    /\ ContactIdle
    /\ CanonIdle

\* criteria.is_in_range(distance)
IsInRangeStep ==
    /\ range_ok = None
    /\ range_ok' = Some(IsInRange(range_c, range_d))
    /\ UNCHANGED <<range_c, range_d>>
    /\ UNCHANGED <<surfaceVars, contactVars, canonVars>>

RangeNext == IsInRangeStep

SpecInRange == RangeInit /\ [][RangeNext]_vars

(***************************************************************************)
(* Properties of extract_surface (checked under SpecSurface).              *)
(***************************************************************************)
Returned == pc = "done" /\ outcome = "Ok"

Skinned == pc \in {"group_by_block", "subdivide", "done"}

\* The patches of the returned list that carry the name <b>:patch_k.
PatchesOf(b) ==
    LET names == {PatchName(b, k) : k \in 0..Len(surfaces)}
    IN {i \in DOMAIN surfaces : surfaces[i].part_name \in names}

\* f and g are the same quad up to rotation and reversal of the winding.
SameQuad(f, g) ==
    LET back == <<g[1], g[4], g[3], g[2]>>
    IN \E r \in 0..3 :
          \/ g[r + 1] = f[1] /\ RotateLeft(g, r) = f
          \/ back[r + 1] = f[1] /\ RotateLeft(back, r) = f

\* f is g with its winding kept: a cyclic rotation of g.
SameWinding(f, g) == \E r \in 0..3 : g[r + 1] = f[1] /\ RotateLeft(g, r) = f

ElemIndices == 0..(Len(mesh.elements) - 1)

\* The elements (0-based) one of whose six faces is the quad f.
ElemsWithFace(f) ==
    {e \in ElemIndices : \E g \in Range(HexFaces(mesh.elements[e + 1])) : SameQuad(f, g)}

AllElemFaces == UNION {Range(HexFaces(mesh.elements[e + 1])) : e \in ElemIndices}

\* The faces stored in the returned patches, with their multiplicity.
StoredAt(f) ==
    {<<i, k>> \in (DOMAIN surfaces) \X (1..(6 * Len(mesh.elements))) :
        k <= Len(surfaces[i].faces) /\ surfaces[i].faces[k] = f}

\* C1: when extract_surface succeeds, the patches named <block>:patch_k of
\* every block are pairwise face-disjoint, their faces together are exactly
\* the boundary faces owned by an element of that block, and every
\* boundary face is stored exactly once in the whole result.
C1_PatchesPartitionSkin ==
    Returned =>
        /\ \A b \in DOMAIN mesh.element_blocks :
              /\ \A i, j \in PatchesOf(b) :
                    i # j => Range(surfaces[i].faces) \cap Range(surfaces[j].faces) = {}
              /\ UNION {Range(surfaces[i].faces) : i \in PatchesOf(b)}
                    = {f \in DOMAIN boundary_faces :
                          boundary_faces[f] \in Range(mesh.element_blocks[b])}
        /\ \A f \in DOMAIN boundary_faces : Cardinality(StoredAt(f)) = 1

\* A successful run on a mesh of two blocks in which some patch has merged
\* several faces.
C1_Witness ==
    /\ Returned
    /\ Cardinality(DOMAIN mesh.element_blocks) = 2
    /\ \E i \in DOMAIN surfaces : Len(surfaces[i].faces) >= 2
    /\ \A b \in DOMAIN mesh.element_blocks : Cardinality(PatchesOf(b)) >= 2

\* C2: every face stored in a returned patch is a cyclic rotation of the
\* face its owning element emits (never the reversed winding), so that its
\* normal points out of the owning element.
C2_WindingPreserved ==
    Returned =>
        \A i \in DOMAIN surfaces : \A k \in DOMAIN surfaces[i].faces :
            LET f == surfaces[i].faces[k]
                e == boundary_faces[f]
            IN \E g \in Range(HexFaces(mesh.elements[e + 1])) : SameWinding(f, g)

\* Position of face f in the face list of its block.
IndexIn(faces, f) == CHOOSE n \in DOMAIN faces : faces[n] = f

\* The block whose patch surfaces[i] is.
BlockOfPatch(i) == CHOOSE b \in DOMAIN block_faces : i \in PatchesOf(b)

NormalOf(f) == ComputeFaceNormal(f, mesh.nodes).val

ShareEdge(f, g) == Range(FaceEdges(f)) \cap Range(FaceEdges(g)) # {}

\* C3: in every returned patch the first face is the seed (the face of the
\* patch that comes first in the block's face list) and every other face
\* has a normal within 10 degrees of the seed's; so a block whose boundary
\* normals are pairwise more than 10 degrees apart gets single-face patches
\* only, and a mesh of one hex gets exactly six single-face patches.
C3_AdmittedAgainstSeed ==
    Returned =>
        /\ \A i \in DOMAIN surfaces :
              LET p       == surfaces[i]
                  faces   == block_faces[BlockOfPatch(i)]
                  seedAt  == IndexIn(faces, p.faces[1])
                  normals == Tabulated([m \in DOMAIN faces |-> NormalOf(faces[m])])
              IN /\ \A k \in DOMAIN p.faces : seedAt <= IndexIn(faces, p.faces[k])
                 /\ \A k \in DOMAIN p.faces :
                        AngleBetweenVectors(p.face_normals[1], p.face_normals[k]) <= 10
                 /\ \/ Len(p.faces) = 1
                    \/ ~(\A m, n \in DOMAIN faces :
                            m # n => AngleBetweenVectors(normals[m], normals[n]) > 10)
        /\ Len(mesh.elements) = 1 =>
              /\ Len(surfaces) = 6
              /\ \A i \in DOMAIN surfaces : Len(surfaces[i].faces) = 1

\* A returned patch of several faces, one of which has, in the same block
\* and outside the patch, an edge neighbour within 10 degrees of it but
\* more than 10 degrees off the seed.
C3_Witness ==
    /\ Returned
    /\ \E i \in DOMAIN surfaces :
          LET p == surfaces[i]
          IN \E k \in 2..Len(p.faces) :
                \E g \in Range(block_faces[BlockOfPatch(i)]) \ Range(p.faces) :
                    /\ ShareEdge(g, p.faces[k])
                    /\ AngleBetweenVectors(NormalOf(g), p.face_normals[k]) <= 10
                    /\ AngleBetweenVectors(NormalOf(g), p.face_normals[1]) > 10

\* C4: every run of extract_surface on a mesh returns the same ordered
\* patch list (same names, same order, same faces in the same order).
C4_SameListEveryRun ==
    (Returned /\ prev_surfaces # <<>>) => surfaces = prev_surfaces[1]

\* (A quad shared by two elements is emitted twice, once by each, as two
\* tuples of AllElemFaces.)
\* C5: a quad face is in the boundary set iff exactly one element of the
\* whole mesh contains it, and is mapped to that element; a face of two
\* elements is in no patch, whatever their blocks; two hexes sharing one
\* face give 10 boundary faces.
C5_SkinIsFacesOfOneElement ==
    Skinned =>
        LET hexFaces   == Tabulated([e \in ElemIndices |->
                              Range(HexFaces(mesh.elements[e + 1]))])
            elemsWith(f) == {e \in ElemIndices : \E g \in hexFaces[e] : SameQuad(f, g)}
            owners     == Tabulated([g \in AllElemFaces |-> elemsWith(g)])
            shared     == {g \in AllElemFaces : Cardinality(owners[g]) = 2}
        IN /\ \A g \in AllElemFaces :
                 (Cardinality(owners[g]) = 1)
                     <=> (\E f \in DOMAIN boundary_faces : SameQuad(f, g))
           /\ \A f \in DOMAIN boundary_faces : elemsWith(f) = {boundary_faces[f]}
           /\ Returned =>
                 \A g \in shared :
                     \A i \in DOMAIN surfaces : \A k \in DOMAIN surfaces[i].faces :
                         ~SameQuad(surfaces[i].faces[k], g)
           /\ (Len(mesh.elements) = 2 /\ Cardinality(shared) = 2)
                 => Cardinality(DOMAIN boundary_faces) = 10

\* A successful run on two hexes of different blocks that share one face.
C5_Witness ==
    /\ Returned
    /\ Len(mesh.elements) = 2
    /\ Cardinality(DOMAIN mesh.element_blocks) = 2
    /\ \E g \in AllElemFaces : Cardinality(ElemsWithFace(g)) = 2
    /\ Cardinality(DOMAIN boundary_faces) = 10

\* C6: extract_surface returns InvalidMeshTopology when some quad face is
\* contained in more than two elements of the mesh.
C6_TripleFaceRejected ==
    (pc = "done" /\ \E g \in AllElemFaces : Cardinality(ElemsWithFace(g)) > 2)
        => outcome = "InvalidMeshTopology"

(***************************************************************************)
(* Properties of detect_contact_pairs (checked under SpecContact).         *)
(***************************************************************************)
Detected == dpc \in {"done", "par_done"}

NumFacesA == Len(surface_a.face_centroids)

NumFacesB == Len(surface_b.face_centroids)

\* Signed distance of B-face j's centroid from A-face i's centroid along
\* A-face i's normal (i, j 0-based).
GapOf(i, j) ==
    Dot(VSub(surface_b.face_centroids[j + 1], surface_a.face_centroids[i + 1]),
        surface_a.face_normals[i + 1])

AngleOf(i, j) ==
    AngleBetweenVectors(surface_a.face_normals[i + 1], surface_b.face_normals[j + 1])

\* B-face j passes in_range and angle_ok against A-face i.
Survives(i, j) ==
    /\ -criteria.max_penetration <= GapOf(i, j)
    /\ GapOf(i, j) <= criteria.max_gap_distance
    /\ AngleOf(i, j) <= criteria.max_normal_angle

\* The B faces the spatial query returned for A-face i that survive.
Survivors(i) == {j \in Range(nearest_of[i + 1]) : Survives(i, j)}

PairsOfA(i) == {n \in DOMAIN results.pairs : results.pairs[n].surface_a_face_id = i}

PairsOfB(j) == {n \in DOMAIN results.pairs : results.pairs[n].surface_b_face_id = j}

\* C7: every returned pair (i, j, d, angle, p) has d the signed distance of
\* B-face j's centroid from A-face i's centroid along A-face i's normal and
\* angle the angle between the two normals, with
\* -max_penetration <= d <= max_gap_distance and angle <= max_normal_angle.
C7_PairsMeetCriteria ==
    Detected =>
        \A n \in DOMAIN results.pairs :
            LET p == results.pairs[n]
                i == p.surface_a_face_id
                j == p.surface_b_face_id
            IN /\ i \in 0..(NumFacesA - 1)
               /\ j \in 0..(NumFacesB - 1)
               /\ p.distance = GapOf(i, j)
               /\ p.normal_angle = AngleOf(i, j)
               /\ -criteria.max_penetration <= p.distance
               /\ p.distance <= criteria.max_gap_distance
               /\ p.normal_angle <= criteria.max_normal_angle

\* A result with a pair exactly at the penetration bound and at the angle
\* bound, for an A face whose query also returned a B face beyond the gap.
C7_Witness ==
    /\ Detected
    /\ \E n \in DOMAIN results.pairs :
          /\ results.pairs[n].distance = -criteria.max_penetration
          /\ results.pairs[n].distance < 0
          /\ results.pairs[n].normal_angle = criteria.max_normal_angle
          /\ \E j \in Range(nearest_of[results.pairs[n].surface_a_face_id + 1]) :
                GapOf(results.pairs[n].surface_a_face_id, j) > criteria.max_gap_distance

\* C8: in every result each A-face index is the A side of exactly one pair
\* or is listed exactly once in unpaired_a, never both; the pairs are at
\* most |A| and pairs plus unpaired_a count |A|.
C8_AFacesPartitioned ==
    Detected =>
        /\ \A i \in 0..(NumFacesA - 1) :
              Cardinality(PairsOfA(i))
                + Cardinality({n \in DOMAIN results.unpaired_a : results.unpaired_a[n] = i})
                = 1
        /\ Len(results.pairs) <= NumFacesA
        /\ Len(results.pairs) + Len(results.unpaired_a) = NumFacesA

\* A result with a paired and an unpaired A face.
C8_Witness ==
    /\ Detected
    /\ results.pairs # <<>>
    /\ results.unpaired_a # <<>>

\* C9: unpaired_b lists, once each, exactly the B-face indices that are the
\* B side of no pair; a B face may be the B side of several pairs.
C9_UnpairedBIsComplement ==
    Detected =>
        /\ Range(results.unpaired_b) = {j \in 0..(NumFacesB - 1) : PairsOfB(j) = {}}
        /\ Len(results.unpaired_b) = Cardinality(Range(results.unpaired_b))

\* A result where one B face is the B side of two pairs and another B face
\* is unpaired.
C9_Witness ==
    /\ Detected
    /\ \E j \in 0..(NumFacesB - 1) : Cardinality(PairsOfB(j)) = 2
    /\ results.unpaired_b # <<>>

\* C10: a pair is emitted for A-face i iff some B face the spatial query
\* returned passes in_range and angle_ok, and its B face has the smallest
\* |d| among those; the two parallel squares 0.001 apart with max angle 180
\* give exactly one pair and no unpaired face.
C10_BestSurvivorEmitted ==
    Detected =>
        /\ \A i \in 0..(NumFacesA - 1) :
              LET pairsOfA  == PairsOfA(i)
                  survivors == Survivors(i)
              IN /\ (pairsOfA # {}) <=> (survivors # {})
                 /\ \A n \in pairsOfA :
                       /\ results.pairs[n].surface_b_face_id \in survivors
                       /\ \A j \in survivors :
                             Abs(results.pairs[n].distance) <= Abs(GapOf(i, j))
        /\ (/\ NumFacesA = 1
            /\ NumFacesB = 1
            /\ surface_a.face_centroids[1] = <<0, 0, 0>>
            /\ surface_a.face_normals[1] = <<0, 0, 1>>
            /\ surface_b.face_centroids[1] = <<0, 0, 1>>
            /\ surface_b.face_normals[1] = <<0, 0, -1>>
            /\ criteria = [max_gap_distance |-> 5, max_penetration |-> 1,
                           max_normal_angle |-> 180, search_radius_multiplier |-> 2])
              => /\ Len(results.pairs) = 1
                 /\ results.unpaired_a = <<>>
                 /\ results.unpaired_b = <<>>

\* An A face whose query returned two survivors, the farther one first, and
\* whose pair is the nearer one.
C10_Witness ==
    /\ Detected
    /\ \E i \in 0..(NumFacesA - 1) :
          /\ Cardinality(Survivors(i)) = 2
          /\ Len(nearest_of[i + 1]) >= 2
          /\ Survives(i, nearest_of[i + 1][1])
          /\ \E n \in PairsOfA(i) :
                /\ results.pairs[n].surface_b_face_id # nearest_of[i + 1][1]
                /\ Abs(results.pairs[n].distance) < Abs(GapOf(i, nearest_of[i + 1][1]))

\* The pair list the sequential path builds from what the queries returned.
SequentialPairs ==
    CollectPairs([i \in 1..NumFacesA |->
                     FindBestMatch(i - 1, surface_a, surface_b, criteria, nearest_of[i])],
                 1, [pairs |-> <<>>, unpaired_a |-> <<>>, paired_b |-> {}]).pairs

\* C11: the returned pair list is in strictly increasing order of A-face
\* index and is the list the sequential path produces, whatever the order
\* in which the concurrent per-A-face searches of the parallel path finish.
C11_PairsInFaceOrder ==
    Detected =>
        /\ \A m, n \in DOMAIN results.pairs :
              m < n => results.pairs[m].surface_a_face_id < results.pairs[n].surface_a_face_id
        /\ results.pairs = SequentialPairs

\* A result of the parallel path in which a search overtook one of a lower
\* A index and both A faces are paired.
C11_Witness ==
    /\ dpc = "par_done"
    /\ overtook
    /\ Len(results.pairs) >= 2

(***************************************************************************)
(* Properties of QuadFace::canonical (checked under SpecCanonical).        *)
(***************************************************************************)
Keyed == key_f # None /\ key_g # None

MinNode(f) == CHOOSE n \in Range(f) : \A m \in Range(f) : n <= m

\* C12: canonical is idempotent on quad faces of four distinct node
\* indices: canonical(canonical(f)) = canonical(f).
C12_CanonicalIdempotent ==
    rekey_f # None => rekey_f[1] = key_f[1]

\* A face keyed twice whose key is neither the face itself nor a rotation
\* of it: the reversed winding was taken.
C12_Witness ==
    /\ rekey_f # None
    /\ ~SameWinding(key_f[1], quad_f)
    /\ quad_f[1] # MinNode(quad_f)

\* C13: the eight tuples obtained from a quad face of four distinct node
\* indices by rotation and by reversal of the winding have one canonical
\* form, and it starts with the smallest node index.
C13_CanonicalWindingInvariant ==
    Keyed =>
        /\ SameQuad(quad_f, quad_g) => key_f = key_g
        /\ key_f[1][1] = MinNode(quad_f)
        /\ SameQuad(key_f[1], quad_f)

\* Two keyed faces, one the other with the winding reversed and rotated.
C13_Witness ==
    /\ Keyed
    /\ SameQuad(quad_f, quad_g)
    /\ ~SameWinding(quad_f, quad_g)
    /\ quad_f[1] # quad_g[1]
    /\ quad_f[1] # MinNode(quad_f)

\* C14: two quad faces of four distinct node indices have the same
\* canonical form if and only if they have the same node set.
C14_SameKeyIffSameNodeSet ==
    Keyed => ((key_f = key_g) <=> (Range(quad_f) = Range(quad_g)))

(***************************************************************************)
(* Further properties of extract_surface (checked under SpecSurface).      *)
(***************************************************************************)
StackedCells == {<<0, 0>>, <<0, 1>>}

\* Two unit cubes (one lattice cell each), the second on top of the first,
\* in the single block "A", under some numbering of the nodes.
StackedCubes(numbering) ==
    mesh = MakeMesh(StackedCells, [c \in StackedCells |-> BlockNames[1]],
                    numbering, "flat", "none")

\* The pairs of skin faces that lie in one plane and share an edge (the
\* lower and the upper face of one side of the stack), split by whether
\* their stored windings give equal or opposite normals.
SidePairs(angle) ==
    {pr \in SUBSET (DOMAIN boundary_faces) :
        /\ Cardinality(pr) = 2
        /\ \A f, g \in pr :
              f # g => /\ ShareEdge(f, g)
                       /\ AngleBetweenVectors(NormalOf(f), NormalOf(g)) = angle}

\* C15 as stated: for two stacked unit cubes in one block, extract_surface
\* finds a skin of 10 faces and returns exactly 10 patches of one face each.
C15_StackedCubesTenPatches ==
    (Returned /\ \E numbering \in Numberings : StackedCubes(numbering)) =>
        /\ Cardinality(DOMAIN boundary_faces) = 10
        /\ Len(surfaces) = 10
        /\ \A i \in DOMAIN surfaces : Len(surfaces[i].faces) = 1

\* C15 amended: for two stacked unit cubes in one block, extract_surface
\* finds a skin of 10 faces; the two coplanar faces of a side of the stack
\* share an edge and form one patch whenever their stored windings give the
\* same normal, so the patch count is 10 minus the number of such sides;
\* with the numbering of test_two_hex_shared_face ([0..7] under [4..11])
\* all four sides merge: 6 patches, four of two faces and two of one.
C15_StackedCubesSidesMerge ==
    (Returned /\ \E numbering \in Numberings : StackedCubes(numbering)) =>
        /\ Cardinality(DOMAIN boundary_faces) = 10
        /\ Cardinality(SidePairs(0)) + Cardinality(SidePairs(180)) = 4
        /\ Len(surfaces) = 10 - Cardinality(SidePairs(0))
        /\ \A pr \in SidePairs(0) :
              \E i \in DOMAIN surfaces : Range(surfaces[i].faces) = pr
        /\ StackedCubes("ring") =>
              /\ Len(surfaces) = 6
              /\ Cardinality({i \in DOMAIN surfaces : Len(surfaces[i].faces) = 2}) = 4
              /\ Cardinality({i \in DOMAIN surfaces : Len(surfaces[i].faces) = 1}) = 2

C15_Witness ==
    /\ Returned
    /\ StackedCubes("ring")
    /\ mesh.elements = <<<<0, 1, 2, 3, 4, 5, 6, 7>>, <<4, 5, 6, 7, 8, 9, 10, 11>>>>
    /\ Len(surfaces) = 6

\* The block that lists the element owning the first face of patch i.
OwnerBlock(i) == ElemToBlock(mesh)[boundary_faces[surfaces[i].faces[1]]]

\* Position of the seed (first face) of patch i in its block's face list.
SeedPos(i) == IndexIn(block_faces[OwnerBlock(i)], surfaces[i].faces[1])

\* C16: within each block the patches are named <block>:patch_k with
\* k = 0..n-1 without gaps, k being the number of patches of that block
\* discovered before it, the seeds being taken in the order of the block's
\* boundary-face list.
C16_PatchNamesCountSeeds ==
    Returned =>
        \A b \in DOMAIN block_faces :
            LET mine == {i \in DOMAIN surfaces : OwnerBlock(i) = b}
            IN /\ \A i \in mine :
                      LET before == {j \in mine : SeedPos(j) < SeedPos(i)}
                      IN /\ surfaces[i].part_name
                              = b \o ":patch_" \o ToString(Cardinality(before))
                         /\ before = {j \in mine : j < i}
               /\ {surfaces[i].part_name : i \in mine}
                     = {b \o ":patch_" \o ToString(k) : k \in 0..(Cardinality(mine) - 1)}

\* Two blocks returned, one of them with at least three patches, one of
\* which has several faces (so k is not the seed's position in the list).
C16_Witness ==
    /\ Returned
    /\ Cardinality(DOMAIN block_faces) = 2
    /\ \E i, j \in DOMAIN surfaces :
          /\ OwnerBlock(i) = OwnerBlock(j)
          /\ Len(surfaces[i].faces) >= 2
          /\ surfaces[j].part_name = OwnerBlock(j) \o ":patch_2"
          /\ SeedPos(j) > 3

\* The model keeps a unit vector as the primitive integer vector of its
\* direction: the components have no common factor.
UnitLength(v) == GCD(GCD(Abs(v[1]), Abs(v[2])), Abs(v[3])) = 1

\* C17: every returned patch has face_normals, face_centroids and
\* face_areas of the same length as faces, entry i of each computed from
\* faces[i]; every face area is strictly positive and every normal has unit
\* length (a skin face without area ends the run with an error instead).
C17_PatchArraysMatchFaces ==
    /\ Returned =>
          \A i \in DOMAIN surfaces :
              LET p == surfaces[i]
              IN /\ Len(p.face_normals) = Len(p.faces)
                 /\ Len(p.face_centroids) = Len(p.faces)
                 /\ Len(p.face_areas) = Len(p.faces)
                 /\ \A k \in DOMAIN p.faces :
                       /\ DiagCross(p.faces[k], mesh.nodes)
                             = VScale(ISqrt(Norm2(DiagCross(p.faces[k], mesh.nodes))
                                            \div Norm2(p.face_normals[k])),
                                      p.face_normals[k])
                       /\ UnitLength(p.face_normals[k])
                       /\ p.face_centroids[k] = ComputeFaceCentroid(p.faces[k], mesh.nodes).val
                       /\ p.face_areas[k] = ComputeFaceArea(p.faces[k], mesh.nodes).val
                       /\ p.face_areas[k] > 0
    /\ (pc = "done" /\ \E f \in DOMAIN boundary_faces :
                           NodesInRange(f, mesh.nodes) /\ Norm2(DiagCross(f, mesh.nodes)) = 0)
          => outcome # "Ok"

\* A returned patch of several faces whose normals differ and are not
\* axis-aligned.
C17_Witness ==
    /\ Returned
    /\ \E i \in DOMAIN surfaces :
          LET p == surfaces[i]
          IN /\ Len(p.faces) >= 2
             /\ p.face_normals[1] # p.face_normals[2]
             /\ Norm2(p.face_normals[2]) > 1
             /\ p.face_centroids[1] # p.face_centroids[2]

\* Some element names a node index outside the node array.
NodeOutOfArray ==
    \E e \in DOMAIN mesh.elements :
        \E n \in 1..8 : mesh.elements[e][n] \notin 0..(Len(mesh.nodes) - 1)

\* C18: extract_surface returns InvalidMeshTopology whenever some element
\* references a node index outside the node array.
C18_NodeOutOfArrayRejected ==
    (pc = "done" /\ NodeOutOfArray) => outcome = "InvalidMeshTopology"

\* Some block lists an element index that the elements array does not have.
ElementOutOfArray ==
    \E b \in DOMAIN mesh.element_blocks :
        \E k \in DOMAIN mesh.element_blocks[b] :
            mesh.element_blocks[b][k] \notin 0..(Len(mesh.elements) - 1)

\* C19: extract_surface returns InvalidMeshTopology when a block's element
\* list names an element index that is not present in the elements array.
C19_ElementOutOfArrayRejected ==
    (pc = "done" /\ ElementOutOfArray) => outcome = "InvalidMeshTopology"

(***************************************************************************)
(* Further properties of detect_contact_pairs (checked under SpecContact). *)
(***************************************************************************)
NegativeOrZeroCriteria ==
    \/ criteria.max_gap_distance < 0
    \/ criteria.max_penetration < 0
    \/ criteria.max_normal_angle < 0
    \/ criteria.search_radius_multiplier <= 0

\* C20: a criteria record with a negative max_gap_distance, a negative
\* max_penetration, a negative max_normal_angle or a non-positive
\* search_radius_multiplier is rejected instead of being used for matching:
\* no face is searched with it and no result is returned for it.
C20_BadCriteriaRejected ==
    NegativeOrZeroCriteria =>
        /\ ~Detected
        /\ \A i \in DOMAIN face_results : face_results[i] = Pending

(***************************************************************************)
(* Errors of extract_surface (checked under SpecSurface).                  *)
(***************************************************************************)
\* A boundary face whose diagonal cross product has no length.
Degenerate(f) == NodesInRange(f, mesh.nodes) /\ Norm2(DiagCross(f, mesh.nodes)) = 0

DegenerateBoundaryFace == \E f \in DOMAIN boundary_faces : Degenerate(f)

\* A boundary face whose owning element no block lists.
UnlistedOwner ==
    \E f \in DOMAIN boundary_faces : boundary_faces[f] \notin DOMAIN ElemToBlock(mesh)

DefaultRange == range_c.max_gap_distance = 50 /\ range_c.max_penetration = 10

\* C23: in_range(d) holds exactly when -max_penetration <= d <=
\* max_gap_distance, both bounds included; with max_gap 0.005 and
\* max_penetration 0.001 it accepts 0, 0.003 and -0.0005 and rejects 0.01
\* and -0.002.
C23_InRangeIsClosedInterval ==
    range_ok # None =>
        /\ range_ok[1] <=> (range_d \in (-range_c.max_penetration)..range_c.max_gap_distance)
        /\ range_d \in {-range_c.max_penetration, range_c.max_gap_distance} => range_ok[1]
        /\ (DefaultRange /\ range_d \in {0, 30, -5}) => range_ok[1]
        /\ (DefaultRange /\ range_d \in {100, -20}) => ~range_ok[1]

\* The default criteria applied to a distance exactly on the gap bound.
C23_Witness ==
    /\ range_ok = Some(TRUE)
    /\ DefaultRange
    /\ range_d = range_c.max_gap_distance

(***************************************************************************)
(* Properties of SurfaceMetrics::compute (checked under SpecContact).      *)
(***************************************************************************)
\* Summed area of the A faces whose indices are in S.
RECURSIVE AreaOfFaces(_)
AreaOfFaces(S) ==
    IF S = {} THEN 0
    ELSE LET i == CHOOSE x \in S : TRUE
         IN surface_a.face_areas[i + 1] + AreaOfFaces(S \ {i})

\* C24: for a result of detect_contact_pairs, SurfaceMetrics::compute on A
\* gives total_area = the sum of all A face areas, paired_area = the sum of
\* the areas of the A faces whose index appears in the pair list (each
\* counted once), and unpaired_area = total_area - paired_area, which is
\* the summed area of the faces listed in unpaired_a.
C24_MetricsAreasAddUp ==
    metrics # None =>
        LET m == metrics[1]
        IN /\ m.total_area = AreaOfFaces(0..(NumFacesA - 1))
           /\ m.paired_area
                 = AreaOfFaces({results.pairs[n].surface_a_face_id : n \in DOMAIN results.pairs})
           /\ m.unpaired_area = m.total_area - m.paired_area
           /\ m.unpaired_area = AreaOfFaces(Range(results.unpaired_a))

\* Metrics of a result in which the A face of area 2 is paired and the one
\* of area 1 is not.
C24_Witness ==
    /\ metrics # None
    /\ metrics[1].paired_area = 2
    /\ metrics[1].unpaired_area = 1
    /\ results.unpaired_a = <<0>>

(***************************************************************************)
(* Edges of the skin (checked under SpecSurface).                          *)
(***************************************************************************)
\* The four edges of a quad, each as the set of its two node indices.
EdgesOfQuad(f) == {{f[i], f[(i % 4) + 1]} : i \in 1..4}

\* The elements (0-based) one of whose faces has the nodes of the quad f.
OwnersByNodes(f) ==
    {e \in ElemIndices : \E g \in Range(HexFaces(mesh.elements[e + 1])) : Range(g) = Range(f)}

\* The mesh is a closed manifold: its node indices are sound, no quad lies
\* on more than two elements, and every edge of a quad that lies on one
\* element only is an edge of exactly two such quads.
ClosedManifold ==
    LET nodeSets == Tabulated([e \in ElemIndices |->
                        {Range(g) : g \in Range(HexFaces(mesh.elements[e + 1]))}])
        owners   == Tabulated([g \in AllElemFaces |->
                        {e \in ElemIndices : Range(g) \in nodeSets[e]}])
        skin     == {g \in AllElemFaces : Cardinality(owners[g]) = 1}
        edgesOf  == Tabulated([g \in skin |-> EdgesOfQuad(g)])
    IN /\ ~NodeOutOfArray
       /\ \A g \in AllElemFaces : Cardinality(owners[g]) <= 2
       /\ \A g \in skin : \A e \in edgesOf[g] :
              Cardinality({h \in skin : e \in edgesOf[h]}) = 2

\* The faces of the patches of block b.
PatchFacesOf(b) ==
    UNION {Range(surfaces[i].faces) : i \in {j \in DOMAIN surfaces : OwnerBlock(j) = b}}

\* How many faces of the patches of block b have the edge e.
FacesOnEdge(b, e) == Cardinality({f \in PatchFacesOf(b) : e \in EdgesOfQuad(f)})

\* C25 as stated: for a closed manifold mesh, every edge of a block's
\* boundary faces is shared by exactly two faces across the union of that
\* block's patches.
C25_BlockSkinClosed ==
    (Returned /\ ClosedManifold) =>
        \A b \in DOMAIN block_faces :
            \A f \in PatchFacesOf(b) : \A e \in EdgesOfQuad(f) : FacesOnEdge(b, e) = 2

\* C25 amended: for a closed manifold mesh, every edge of a boundary face
\* is shared by exactly two faces across the patches of all blocks; across
\* the patches of one block it is shared by two faces, or by one where the
\* skin passes to another block (the other face on the edge is then in a
\* patch of that block); with a single block it is always two.
C25_SkinClosedAcrossBlocks ==
    Returned =>
        LET blocks == DOMAIN block_faces
            faces  == Tabulated([b \in blocks |-> PatchFacesOf(b)])
            edges  == Tabulated([b \in blocks |-> UNION {EdgesOfQuad(f) : f \in faces[b]}])
            onEdge == Tabulated([b \in blocks |-> [e \in UNION Range(edges) |->
                          Cardinality({f \in faces[b] : e \in EdgesOfQuad(f)})]])
        IN \/ \A b \in blocks : \A e \in edges[b] :
                 /\ onEdge[b][e] \in {1, 2}
                 /\ onEdge[b][e] = 1 => \E c \in blocks \ {b} : onEdge[c][e] = 1
                 /\ onEdge[b][e] = 2 => \A c \in blocks \ {b} : onEdge[c][e] = 0
           \/ ~ClosedManifold

\* A closed manifold mesh of two blocks glued along a face: an edge of that
\* face has one face in each block's patches.
C25_Witness ==
    /\ Returned
    /\ ClosedManifold
    /\ Cardinality(DOMAIN block_faces) = 2
    /\ \E g \in AllElemFaces :
          /\ Cardinality(OwnersByNodes(g)) = 2
          /\ \E e \in EdgesOfQuad(g) : \A b \in DOMAIN block_faces : FacesOnEdge(b, e) = 1

(***************************************************************************)
(* Maximality of the patches (checked under SpecSurface).                  *)
(***************************************************************************)
\* Two quads have an edge (an unordered node pair) in common.
CommonEdge(f, g) == EdgesOfQuad(f) \cap EdgesOfQuad(g) # {}

\* The positions (patch, index) of the faces of block b outside patch i.
OutsideOf(i) ==
    {<<j, n>> \in (DOMAIN surfaces) \X (1..Len(block_faces[OwnerBlock(i)])) :
        /\ j # i
        /\ OwnerBlock(j) = OwnerBlock(i)
        /\ n \in DOMAIN surfaces[j].faces}

\* The face at position q = (patch, index) touches patch i along an edge
\* and its normal is within the coplanarity angle of the seed normal of i.
Admissible(i, q) ==
    /\ \E f \in Range(surfaces[i].faces) : CommonEdge(f, surfaces[q[1]].faces[q[2]])
    /\ Coplanar(surfaces[i].face_normals[1], surfaces[q[1]].face_normals[q[2]])

\* C26: each returned patch is maximal: no boundary face of the same block
\* outside the patch shares an edge with a face of the patch while having a
\* normal within 10 degrees of the patch's seed normal.
C26_PatchesMaximal ==
    Returned => \A i \in DOMAIN surfaces : \A q \in OutsideOf(i) : ~Admissible(i, q)

(***************************************************************************)
(* The neighbour relation of patch segmentation (checked under             *)
(* SpecSurface).                                                           *)
(***************************************************************************)
\* The adjacency build_boundary_face_adjacency gives the faces of block b
\* (as a relation it is the same for every visiting order of the edges).
AdjacencyOf(b) ==
    BuildBoundaryFaceAdjacency(block_faces[b],
        CHOOSE o \in IterOrders(EdgeKeys(block_faces[b])) : TRUE)

\* C27: in patch segmentation two boundary faces of a block are treated as
\* neighbours if and only if they have an edge (an unordered pair of node
\* indices) in common, however many faces of the block share that edge.
C27_NeighboursIffCommonEdge ==
    \A b \in DOMAIN block_faces :
        LET faces == block_faces[b]
            adjacency == AdjacencyOf(b)
        IN \A m, n \in DOMAIN faces :
              m # n => ((n - 1 \in Range(adjacency[m - 1])) <=> CommonEdge(faces[m], faces[n]))

(***************************************************************************)
(* Connectedness of the patches (checked under SpecSurface).               *)
(***************************************************************************)
\* The faces of F reachable from the faces of S through chains of faces of
\* F in which consecutive faces have an edge in common.
RECURSIVE ReachableIn(_, _)
ReachableIn(F, S) ==
    LET T == S \cup {g \in F : \E f \in S : CommonEdge(f, g)}
    IN IF T = S THEN S ELSE ReachableIn(F, T)

\* C28: every face of a patch is reachable from the patch's seed face
\* through a chain of faces of the same patch in which consecutive faces
\* share an edge.
C28_PatchConnectedToSeed ==
    Returned => \A i \in DOMAIN surfaces :
        ReachableIn(Range(surfaces[i].faces), {surfaces[i].faces[1]}) = Range(surfaces[i].faces)

\* A returned patch with a face that has no edge in common with the seed
\* and is reached through another face of the patch.
C28_Witness ==
    /\ Returned
    /\ \E i \in DOMAIN surfaces : \E g \in Range(surfaces[i].faces) :
          /\ g # surfaces[i].faces[1]
          /\ ~CommonEdge(surfaces[i].faces[1], g)

(***************************************************************************)
(* Ties of find_best_match (checked under SpecContact).                    *)
(***************************************************************************)
\* The position of B face j in what the query of A face i enumerated.
SeenAt(i, j) == CHOOSE p \in DOMAIN nearest_of[i + 1] : nearest_of[i + 1][p] = j

\* The survivors of A face i whose |d| is the smallest among the survivors.
Closest(i) ==
    LET surv == Survivors(i)
        gap  == Tabulated([j \in surv |-> Abs(GapOf(i, j))])
    IN {j \in surv : \A k \in surv : gap[j] <= gap[k]}

\* C29: when several surviving candidates of an A face have the same
\* smallest |d|, the one the spatial query enumerated first is the one
\* emitted (a later candidate replaces the best only if its |d| is strictly
\* smaller).
C29_TiesKeepFirstSeen ==
    Detected =>
        \A n \in DOMAIN results.pairs :
            LET i       == results.pairs[n].surface_a_face_id
                j       == results.pairs[n].surface_b_face_id
                closest == Closest(i)
            IN /\ j \in closest
               /\ \A k \in closest : SeenAt(i, j) <= SeenAt(i, k)

\* An A face with two survivors of the same smallest |d|, one above and one
\* below its plane, paired with the one the query enumerated first.
C29_Witness ==
    /\ Detected
    /\ \E i \in 0..(NumFacesA - 1) : \E n \in PairsOfA(i) :
          /\ Cardinality(Closest(i)) >= 2
          /\ \E k \in Closest(i) :
                /\ SeenAt(i, k) > SeenAt(i, results.pairs[n].surface_b_face_id)
                /\ GapOf(i, k) = -results.pairs[n].distance

(***************************************************************************)
(* The search radius (checked under SpecContact).                          *)
(***************************************************************************)
\* The centroid of B face j is within Euclidean distance r of the centroid
\* of A face i (a distance is never below zero).
WithinDistance(i, j, r) ==
    /\ r >= 0
    /\ SquaredEuclidean(surface_b.face_centroids[j + 1], surface_a.face_centroids[i + 1]) <= r * r

\* C30: every pair (i, j) of a result has the centroid of B face j within
\* Euclidean distance max_gap_distance * search_radius_multiplier of the
\* centroid of A face i; a B face farther away is never paired with i, even
\* when it passes in_range and angle_ok.
C30_PairsWithinSearchRadius ==
    Detected =>
        \A n \in DOMAIN results.pairs :
            WithinDistance(results.pairs[n].surface_a_face_id,
                           results.pairs[n].surface_b_face_id,
                           criteria.max_gap_distance * criteria.search_radius_multiplier)

====
